---- MODULE Spec2Model ----
(***************************************************************************)
(* TravelTale-OSM: the trip state owned by App (src/App.tsx), the map      *)
(* click handler and the routing-control lifecycle of MapComponent         *)
(* (src/components/MapComponent.tsx), the OSM service client               *)
(* (src/unnamed/part_000, imported as services/osmService), the shareable  *)
(* link, the viewport policy and the story generation                      *)
(* (src/services/geminiService.ts).                                        *)
(*                                                                         *)
(* A React state setter is an assignment; the effects whose dependencies   *)
(* the setter changed run in the same step as the handler that called it.  *)
(* Every awaited request is a record in flight; its continuation is a      *)
(* separate action.  Strings that the code inspects are sequences of       *)
(* one-character strings.  An absent value (null, undefined) is None.      *)
(***************************************************************************)
EXTENDS Integers, Sequences, FiniteSets, Bags, TLC

\* ---------------------------------------------------------------- bounds
\* Requests (reverse geocoding, POI fetch, route) in flight at once, in
\* ClickSpec, PoiSpec and RouteSpec.
ClickMaxInFlight == 2
PoiMaxInFlight == 2
RouteMaxInFlight == 2
\* Clicks awaiting their name at once, in the specifications other than
\* ClickSpec.
MaxClicks == 1
\* Elements in one answer of the tagged-data service, in the specifications
\* of the application and in ServiceSpec.
MaxElems == 1
ServiceMaxElems == 2
\* Requests in flight at once in the other specifications.
SideMaxInFlight == 1
\* Calls of the generative text service, and fragments of one stream.
MaxGenerations == 2
MaxChunks == 2
MaxLocates == 2

\* ------------------------------------------------------- values and text
None == << >>
Some(x) == << x >>

\* The points the map is clicked at.
LatLngs == { [lat |-> 1, lng |-> 1], [lat |-> 2, lng |-> 2] }

SelectionModes == {"start", "end"}
TransportModes == {"car", "bike", "foot"}

\* "Lieu inconnu"
LieuInconnu == <<"L", "i", "e", "u", " ", "i", "n", "c", "o", "n", "n", "u">>
\* "Lieu d'interet sans nom"
SansNom == <<"s", "a", "n", "s", " ", "n", "o", "m">>

\* String.prototype.split(sep): the segments between the separators, at
\* least one (the empty string splits into one empty segment).
RECURSIVE SplitFrom(_, _, _, _)
SplitFrom(s, sep, i, cur) ==
  IF i > Len(s) THEN << cur >>
  ELSE IF s[i] = sep THEN << cur >> \o SplitFrom(s, sep, i + 1, << >>)
       ELSE SplitFrom(s, sep, i + 1, Append(cur, s[i]))

Split(s, sep) == SplitFrom(s, sep, 1, << >>)

\* --------------------------------------------------- the geocoding service
\* What the reverse endpoint may answer: the request fails, the body has no
\* display_name, or the body has one.
GeoFailure == [status |-> "neterror", display_name |-> None]
GeoNoName == [status |-> "noname", display_name |-> None]
DisplayNames == { <<"a", ",", "b">> }
GeoNamed == {[status |-> "ok", display_name |-> d] : d \in DisplayNames}
GeoResponses == {GeoFailure, GeoNoName} \cup GeoNamed

reverseGeocodeWhole(response) ==
  IF response.status = "ok" THEN response.display_name ELSE LieuInconnu

reverseGeocode(response) ==
  IF response.status = "ok"
  THEN Split(response.display_name, ",")[1]
  ELSE LieuInconnu

\* What the search endpoint may answer: the request fails, or the body is a
\* list of places, best match first.
Place(coordinate, name) ==
  [lat |-> coordinate, lon |-> coordinate, display_name |-> name]
PlaceLists ==
  { << >>,
    << Place(<<"1">>, <<"c", ",", "d">>) >>,
    << Place(<<"2">>, <<"e">>), Place(<<"1">>, <<"c", ",", "d">>) >> }
SearchFailure == [status |-> "neterror", data |-> << >>]
SearchResponses == {SearchFailure} \cup {[status |-> "ok", data |-> l] : l \in PlaceLists}

\* What is typed in a search input: nothing, or a query.
Queries == { << >>, <<"q">> }

searchLocationFaulting(response) ==
  IF response.status = "ok" THEN response.data ELSE << Place(<<"0">>, << >>) >>

searchLocation(response) ==
  IF response.status = "ok" THEN response.data ELSE << >>

\* ------------------------------------------------- the tagged-data service
\* The nodes the service knows around a point: one with a name tag, one
\* with only a description tag, one with neither.  A node lies at the point
\* it is found around (the click points are further apart than the radius).
Tagged(n, d) == [tourism |-> "museum", name |-> n, description |-> d]

CellNodes(lat, lng) ==
  { [id |-> 10 * lat + 1, lat |-> lat, lon |-> lng, tags |-> Tagged(<<"m">>, << >>)],
    [id |-> 10 * lat + 2, lat |-> lat, lon |-> lng, tags |-> Tagged(<< >>, <<"d">>)],
    [id |-> 10 * lat + 3, lat |-> lat, lon |-> lng, tags |-> Tagged(<< >>, << >>)] }

\* The lists of at most n distinct members of S.
ListsUpTo(S, n) ==
  UNION { { q \in [1..k -> S] : \A i, j \in 1..k : q[i] = q[j] => i = j } : k \in 0..n }

\* Outcomes of the request: it throws, its body has no elements field, its
\* elements value is not a list of objects, or it lists elements.
OverpassFailures == { "neterror", "noelements", "malformed" }

OverpassStatuses == OverpassFailures \cup { "ok" }

\* The service is unreachable.
OverpassDown == { "neterror" }

\* What the service may answer to a query, among the outcomes in statuses
\* and with at most maxElems elements around the query's point.
OverpassResponses(q, statuses, maxElems) ==
  { [status |-> st, elements |-> << >>] : st \in OverpassFailures \cap statuses }
  \cup IF "ok" \in statuses
       THEN { [status |-> "ok", elements |-> els] :
                els \in ListsUpTo(CellNodes(q.lat, q.lng), maxElems) }
       ELSE {}

\* tags.name || tags.description || placeholder (an empty string is falsy).
PoiName(tags) ==
  IF tags.name # << >> THEN tags.name
  ELSE IF tags.description # << >> THEN tags.description
  ELSE SansNom

PoiOf(el) == [id |-> el.id, lat |-> el.lat, lng |-> el.lon, name |-> PoiName(el.tags)]

IsNamed(poi) == poi.name # SansNom

\* The list getPOIs returns: empty when the request throws (catch), when
\* the body has no elements (early return) and when mapping the elements
\* throws (catch); else the named ones of the mapped elements.
getPOIsUnfiltered(response) ==
  IF response.status # "ok" THEN << >>
  ELSE [i \in 1..Len(response.elements) |-> PoiOf(response.elements[i])]

getPOIsFaulting(response) ==
  IF response.status # "ok" THEN << [id |-> 0, lat |-> 0, lng |-> 0, name |-> << >>] >>
  ELSE SelectSeq([i \in 1..Len(response.elements) |-> PoiOf(response.elements[i])], IsNamed)

getPOIs(response) ==
  IF response.status # "ok" THEN << >>
  ELSE SelectSeq([i \in 1..Len(response.elements) |-> PoiOf(response.elements[i])], IsNamed)

\* ------------------------------------------------------ the routing engine
\* Map TransportMode to OSRM profiles.
Profile(mode) ==
  IF mode = "bike" THEN "cycling"
  ELSE IF mode = "foot" THEN "walking"
  ELSE "driving"

LineColor(mode) ==
  IF mode = "foot" THEN "#10b981"
  ELSE IF mode = "bike" THEN "#f59e0b"
  ELSE "#3b82f6"

latLng(loc) == [lat |-> loc.lat, lng |-> loc.lng]

\* L.Routing.control({waypoints, router: osrmv1({profile}), lineOptions}).
RoutingControl(s, e, mode) ==
  [waypoints |-> << latLng(s), latLng(e) >>,
   profile |-> Profile(mode),
   color |-> LineColor(mode)]

\* The engine's answer to a control's request.  Distances are distinct for
\* distinct waypoint pairs and durations for distinct profiles, so that a
\* summary tells which request it answers.
Pace(profile) ==
  IF profile = "driving" THEN 1 ELSE IF profile = "cycling" THEN 3 ELSE 12

RouteDistance(wps) == 1000 * (10 * wps[1].lat + wps[2].lat)

PrimarySummary(wps, profile) ==
  [totalDistance |-> RouteDistance(wps),
   totalTime |-> RouteDistance(wps) * Pace(profile)]

AlternativeSummary(wps, profile) ==
  [totalDistance |-> RouteDistance(wps) + 500,
   totalTime |-> (RouteDistance(wps) + 500) * Pace(profile)]

\* The routes a 'routesfound' event may carry for a control.
RoutesFor(c) ==
  { << >>,
    << [summary |-> PrimarySummary(c.waypoints, c.profile)] >>,
    << [summary |-> PrimarySummary(c.waypoints, c.profile)],
       [summary |-> AlternativeSummary(c.waypoints, c.profile)] >> }

\* ------------------------------------------------------ the shareable link
\* parseFloat of text that is no number.
NaN == -1

RECURSIVE Concat(_)
Concat(parts) ==
  IF parts = << >> THEN << >> ELSE Head(parts) \o Concat(Tail(parts))

\* parts joined with the separator text between them.
RECURSIVE Join(_, _)
Join(parts, sep) ==
  IF parts = << >> THEN << >>
  ELSE IF Len(parts) = 1 THEN parts[1]
  ELSE parts[1] \o sep \o Join(Tail(parts), sep)

Digits == << "0", "1", "2", "3", "4", "5", "6", "7", "8", "9" >>
IsDigit(c) == \E d \in 1..10 : Digits[d] = c
DigitVal(c) == (CHOOSE d \in 1..10 : Digits[d] = c) - 1

\* String(n) of a coordinate.
RECURSIVE NumStr(_)
NumStr(n) ==
  IF n = NaN THEN << "N", "a", "N" >>
  ELSE IF n < 10 THEN << Digits[n + 1] >>
  ELSE NumStr(n \div 10) \o << Digits[(n % 10) + 1] >>

\* parseFloat: the number its longest numeric prefix denotes, NaN when the
\* text (or the text of undefined) does not start with a digit.
RECURSIVE ParseDigits(_, _, _)
ParseDigits(s, i, acc) ==
  IF i <= Len(s) /\ IsDigit(s[i]) THEN ParseDigits(s, i + 1, 10 * acc + DigitVal(s[i]))
  ELSE acc

parseFloat(field) ==
  IF field = None THEN NaN
  ELSE IF field[1] # << >> /\ IsDigit(field[1][1]) THEN ParseDigits(field[1], 1, 0)
  ELSE NaN

\* The escape of a character that is not left as it is, and the character
\* of an escape.
Escapes ==
  { << "|", << "%", "7", "C" >> >>, << "%", << "%", "2", "5" >> >>,
    << "&", << "%", "2", "6" >> >>, << " ", << "%", "2", "0" >> >>,
    << ",", << "%", "2", "C" >> >>, << "=", << "%", "3", "D" >> >>,
    << "+", << "%", "2", "B" >> >> }

EscapeTable == [c \in {e[1] : e \in Escapes} |-> (CHOOSE e \in Escapes : e[1] = c)[2]]
HasEscape(c) == c \in DOMAIN EscapeTable
EscapeOf(c) == EscapeTable[c]
IsEscape(t) == \E e \in Escapes : e[2] = t
Unescaped(t) == (CHOOSE e \in Escapes : e[2] = t)[1]

\* encodeURIComponent: letters and digits stay, the rest is escaped.
encodeURIComponent(s) ==
  Concat([i \in 1..Len(s) |-> IF HasEscape(s[i]) THEN EscapeOf(s[i]) ELSE << s[i] >>])

\* decodeURIComponent: [ok, text]; a '%' that starts no escape throws.
RECURSIVE DecodeFrom(_, _, _)
DecodeFrom(s, i, acc) ==
  IF i > Len(s) THEN [ok |-> TRUE, text |-> acc]
  ELSE IF s[i] # "%" THEN DecodeFrom(s, i + 1, Append(acc, s[i]))
  ELSE IF i + 2 <= Len(s) /\ IsEscape(SubSeq(s, i, i + 2))
       THEN DecodeFrom(s, i + 3, Append(acc, Unescaped(SubSeq(s, i, i + 2))))
       ELSE [ok |-> FALSE, text |-> << >>]

\* decodeURIComponent(undefined) is the text 'undefined'.
Undefined == << "u", "n", "d", "e", "f", "i", "n", "e", "d" >>

decodeURIComponent(field) ==
  DecodeFrom(IF field = None THEN Undefined ELSE field[1], 1, << >>)

\* URLSearchParams serialises a value: a space becomes '+', the other
\* characters are escaped as by encodeURIComponent.
FormEncode(s) ==
  Concat([i \in 1..Len(s) |->
            IF s[i] = " " THEN << "+" >>
            ELSE IF HasEscape(s[i]) THEN EscapeOf(s[i]) ELSE << s[i] >>])

\* URLSearchParams parses a value: '+' becomes a space, escapes are
\* replaced, a '%' that starts no escape stays.
RECURSIVE FormDecodeFrom(_, _, _)
FormDecodeFrom(s, i, acc) ==
  IF i > Len(s) THEN acc
  ELSE IF s[i] = "+" THEN FormDecodeFrom(s, i + 1, Append(acc, " "))
  ELSE IF s[i] = "%" /\ i + 2 <= Len(s) /\ IsEscape(SubSeq(s, i, i + 2))
       THEN FormDecodeFrom(s, i + 3, Append(acc, Unescaped(SubSeq(s, i, i + 2))))
       ELSE FormDecodeFrom(s, i + 1, Append(acc, s[i]))

FormDecode(s) == FormDecodeFrom(s, 1, << >>)

KeyStart == << "s", "t", "a", "r", "t" >>
KeyEnd == << "e", "n", "d" >>
KeyMode == << "m", "o", "d", "e" >>

ModeText == [car |-> << "c", "a", "r" >>, bike |-> << "b", "i", "k", "e" >>,
             foot |-> << "f", "o", "o", "t" >>]

\* new URLSearchParams(query): the pairs of the query, in order.
PairOf(part) ==
  LET kv == Split(part, "=")
  IN [key |-> FormDecode(kv[1]),
      value |-> FormDecode(Join(Tail(kv), << "=" >>))]

SearchParams(query) ==
  LET parts == SelectSeq(Split(query, "&"), LAMBDA part : part # << >>)
  IN [i \in 1..Len(parts) |-> PairOf(parts[i])]

\* params.get(key): the value of the first pair with the key, or null.
ParamGet(params, key) ==
  LET hits == SelectSeq(params, LAMBDA pair : pair.key = key)
  IN IF hits = << >> THEN None ELSE Some(hits[1].value)

\* params.toString()
ParamsToString(params) ==
  Join([i \in 1..Len(params) |->
          FormEncode(params[i].key) \o << "=" >> \o FormEncode(params[i].value)],
       << "&" >>)

\* `${loc.lat}|${loc.lng}|${encodeURIComponent(loc.name)}`
WaypointParamRaw(loc) ==
  NumStr(loc.lat) \o << "|" >> \o NumStr(loc.lng) \o << "|" >> \o loc.name

WaypointParam(loc) ==
  NumStr(loc.lat) \o << "|" >> \o NumStr(loc.lng) \o << "|" >> \o encodeURIComponent(loc.name)

\* The URL-update effect: the query replaceState writes for a trip state.
UrlOf(s, e, mode) ==
  ParamsToString(
    (IF s # None THEN << [key |-> KeyStart, value |-> WaypointParam(s[1])] >> ELSE << >>)
    \o (IF e # None THEN << [key |-> KeyEnd, value |-> WaypointParam(e[1])] >> ELSE << >>)
    \o << [key |-> KeyMode, value |-> ModeText[mode]] >>)

\* The i-th of the fields a destructuring of split('|') binds, or undefined.
Field(fields, i) == IF i <= Len(fields) THEN Some(fields[i]) ELSE None

\* The URL-load effect on a start or end parameter: the waypoint it sets, or
\* none when the parameter is absent or empty or decoding its name throws.
LoadWaypoint(param) ==
  IF param = None \/ param = Some(<< >>) THEN None
  ELSE LET fields == Split(param[1], "|")
           name == decodeURIComponent(Field(fields, 3))
       IN IF name.ok
          THEN Some([lat |-> parseFloat(Field(fields, 1)),
                     lng |-> parseFloat(Field(fields, 2)),
                     name |-> name.text])
          ELSE None

\* The URL-load effect on the mode parameter.
LoadMode(param) ==
  IF param # None /\ \E m \in TransportModes : ModeText[m] = param[1]
  THEN CHOOSE m \in TransportModes : ModeText[m] = param[1]
  ELSE "car"

\* ----------------------------------------------------------- the viewport
FitPadding == 50
PoiZoom == 16
LocateZoom == 13
StartZoom == 13

\* The viewport before anything moves it (MapContainer's center and zoom).
DefaultView == [kind |-> "default"]

Min(S) == CHOOSE x \in S : \A y \in S : x <= y
Max(S) == CHOOSE x \in S : \A y \in S : y <= x

\* L.latLngBounds([]) extended by the points.
BoundsOf(points) ==
  [south |-> Min({pt.lat : pt \in points}), west |-> Min({pt.lng : pt \in points}),
   north |-> Max({pt.lat : pt \in points}), east |-> Max({pt.lng : pt \in points})]

\* The points MapBoundsController extends its bounds by.
KnownPoints(s, e, ps) ==
  (IF s # None THEN {latLng(s[1])} ELSE {})
  \cup (IF e # None THEN {latLng(e[1])} ELSE {})
  \cup {latLng(ps[i]) : i \in 1..Len(ps)}

\* MapBoundsController's effect: the viewport it leaves.  extend throws on
\* a coordinate that is no number, and the effect ends there.
BoundsEffectStartFits(s, e, ps, view) ==
  LET points == KnownPoints(s, e, ps)
  IN IF points = {} \/ \E pt \in points : pt.lat = NaN \/ pt.lng = NaN THEN view
     ELSE [kind |-> "fitBounds", bounds |-> BoundsOf(points), padding |-> FitPadding]

BoundsEffect(s, e, ps, view) ==
  LET points == KnownPoints(s, e, ps)
      hasPoints == points # {}
  IN IF \E pt \in points : pt.lat = NaN \/ pt.lng = NaN THEN view
     ELSE IF hasPoints /\ (s # None \/ e # None \/ Len(ps) > 0)
     THEN IF (s # None /\ e # None) \/ Len(ps) > 0
          THEN [kind |-> "fitBounds", bounds |-> BoundsOf(points), padding |-> FitPadding]
          ELSE IF s # None
               THEN [kind |-> "setView", center |-> latLng(s[1]), zoom |-> StartZoom]
               ELSE view
     ELSE view

\* map.flyTo(center, zoom)
FlyTo(center, zoom) == [kind |-> "flyTo", center |-> center, zoom |-> zoom]

\* markerRefs.current[id]: PoiMarkers renders one marker per POI of the
\* list, and each registers itself under the id of its POI.
Registered(id, ps) == \E i \in 1..Len(ps) : ps[i].id = id

\* PoiMarkers' effect, run when focusedPoi has changed: the viewport and
\* the marker whose popup was opened last that it leaves.
FocusEffectNoPopup(focused, ps, view, popup) ==
  IF focused # None /\ Registered(focused[1].id, ps)
  THEN [viewport |-> FlyTo([lat |-> focused[1].lat, lng |-> focused[1].lng], PoiZoom),
        popup |-> popup]
  ELSE [viewport |-> view, popup |-> popup]

FocusEffect(focused, ps, view, popup) ==
  IF focused # None /\ Registered(focused[1].id, ps)
  THEN [viewport |-> FlyTo([lat |-> focused[1].lat, lng |-> focused[1].lng], PoiZoom),
        popup |-> Some(focused[1].id)]
  ELSE [viewport |-> view, popup |-> popup]

\* What the browser may answer to map.locate(): a position, or an error
\* (permission denied, position unavailable).
LocateError == [status |-> "error", latlng |-> [lat |-> 0, lng |-> 0]]
LocateAnswers == {LocateError} \cup {[status |-> "found", latlng |-> p] : p \in LatLngs}

\* 'locationfound' is fired: every once-listener registered runs, and is
\* removed.
OnLocationFound(listeners, latlng, view) ==
  IF listeners > 0
  THEN [viewport |-> FlyTo(latlng, LocateZoom), listeners |-> 0]
  ELSE [viewport |-> view, listeners |-> 0]

\* -------------------------------------------------- the story generation
\* The message handleGenerateStory displays on a failure.
Apology == << "D", "e", "s", "o", "l", "e" >>

\* chunk.text of a fragment of the stream; a chunk without text has none.
Fragments == { << "a" >>, << "b" >>, << >> }

Idle == [phase |-> "idle", fullStory |-> << >>, received |-> << >>]

\* generateStoryStream calls the service only with a credential.
IssuesRequestAlways(key) == TRUE

IssuesRequest(key) == key

\* fullStory += text
AppendTextFront(fullStory, text) == text \o fullStory

AppendText(fullStory, text) == fullStory \o text

\* The catch of handleGenerateStory: the story it displays.
OnStoryErrorKeep(shown) == shown

OnStoryError(shown) == Apology

\* ------------------------------------------------------------------ state
VARIABLES
  start,              \* App: Location | null
  end,                \* App: Location | null
  selectionMode,      \* App: 'start' | 'end'
  transportMode,      \* App: 'car' | 'bike' | 'foot'
  pois,               \* App: POI[]
  isLoadingPois,      \* App: boolean
  routeSummary,       \* MapComponent: RouteSummary | null
  routingControlRef,  \* RoutingMachine: the control it registered, or null
  mapControls,        \* the routing controls attached to the map
  clicks,             \* map clicks awaiting reverseGeocode (a bag)
  poiFetches,         \* getPOIs calls awaiting the service (a bag)
  routeRequests,      \* controls whose route request is unanswered
  engine,             \* window.L.Routing: "ok", "missing" or "faulty" (control() throws)
  mounted,            \* the component tree is mounted
  poiResponse,        \* what the service answered to the last getPOIs call that returned
  viewport,           \* the map's view, as MapBoundsController last left it
  url,                \* the page's query string (location.search, history.replaceState)
  story,              \* App: string
  isGenerating,       \* App: boolean
  generation,         \* the run of handleGenerateStory: its phase, fullStory, fragments received
  apiKey,             \* process.env.API_KEY is set
  genRequests,        \* calls of generateContentStream made
  engineAnswer,       \* the routing engine's answer handled in the last step, if any
  latestClick,        \* per slot, the point clicked last while a click on it awaits its name
  searches,           \* handleSearch calls awaiting searchLocation (a bag)
  searchResults,      \* what searchLocation returned to the last call that returned
  focusedPoi,         \* App: POI | null
  openPopup,          \* the id of the marker PoiMarkers last called openPopup() on
  locates,            \* map.locate() calls awaiting the browser (a bag)
  locateListeners     \* the once-listeners of 'locationfound' registered on the map

vars ==
  << start, end, selectionMode, transportMode, pois, isLoadingPois,
     routeSummary, routingControlRef, mapControls, clicks, poiFetches,
     routeRequests, engine, mounted, poiResponse, viewport, url,
     story, isGenerating, generation, apiKey, genRequests,
     engineAnswer, latestClick, searches, searchResults, focusedPoi, openPopup,
     locates, locateListeners >>

appVars == << start, end, selectionMode, transportMode >>
poiVars == << pois, isLoadingPois, poiFetches, poiResponse >>
pageVars == << viewport, url >>
storyVars == << story, isGenerating, generation, apiKey, genRequests >>
routeVars == << routeSummary, routingControlRef, mapControls, routeRequests >>
searchVars == << searches, searchResults >>
focusVars == << focusedPoi, openPopup >>
locateVars == << locates, locateListeners >>
sideVars == << latestClick, searchVars, focusVars, locateVars >>

Engines == {"ok", "missing", "faulty"}

\* The engine has answered nothing yet.
NoAnswer == [kind |-> "none"]

\* No click awaits its name, on either slot.
NoClick == [start |-> None, end |-> None]

\* The state after construction with an empty query string: the useState
\* initial values; the mount effects leave them as they are.
InitWith(engines, keys) ==
  /\ start = None
  /\ end = None
  /\ selectionMode = "start"
  /\ transportMode = "car"
  /\ pois = << >>
  /\ isLoadingPois = FALSE
  /\ routeSummary = None
  /\ routingControlRef = None
  /\ mapControls = {}
  /\ clicks = EmptyBag
  /\ poiFetches = EmptyBag
  /\ routeRequests = {}
  /\ engine \in engines
  /\ mounted = TRUE
  /\ poiResponse = None
  /\ viewport = DefaultView
  /\ url = UrlOf(None, None, "car")
  /\ story = << >>
  /\ isGenerating = FALSE
  /\ generation = Idle
  /\ apiKey \in keys
  /\ genRequests = 0
  /\ engineAnswer = NoAnswer
  /\ latestClick = NoClick
  /\ searches = EmptyBag
  /\ searchResults = None
  /\ focusedPoi = None
  /\ openPopup = None
  /\ locates = EmptyBag
  /\ locateListeners = 0

\* ------------------------------------------------- RoutingMachine's effect
\* onRouteFound(null)
ResetSummaryKeep(summary) == summary

ResetSummary(summary) == None

\* map.removeControl(routingControlRef.current), when there is one.
RemoveControl(controls, ref) ==
  IF ref # None THEN controls \ {ref[1]} ELSE controls

\* The cleanup the previous run of the effect returned.
EffectCleanupLeak(controls, ref) == controls

EffectCleanup(controls, ref) == RemoveControl(controls, ref)

\* start && end, the engine loaded, and control() not throwing.
CreatesControlUnloaded(s, e, eng) == s # None /\ e # None /\ eng = "missing"

CreatesControlFaulty(s, e, eng) == s # None /\ e # None /\ eng # "missing"

CreatesControl(s, e, eng) == s # None /\ e # None /\ eng = "ok"

\* One run of the effect for the props (s, e, mode): what it makes of the
\* summary, the ref and the map, and the controls whose request it issues.
RoutingEffect(s, e, mode, eng, controls, ref, summary) ==
  LET removed == RemoveControl(EffectCleanup(controls, ref), ref)
  IN IF CreatesControl(s, e, eng)
     THEN LET control == RoutingControl(s[1], e[1], mode)
          IN [summary |-> ResetSummary(summary),
              ref |-> Some(control),
              controls |-> removed \cup {control},
              issued |-> {control}]
     ELSE [summary |-> ResetSummary(summary),
           ref |-> None,
           controls |-> removed,
           issued |-> {}]

\* The effect, run for the new props of this step.
RunRoutingEffect ==
  LET r == RoutingEffect(start', end', transportMode', engine,
                         mapControls, routingControlRef, routeSummary)
  IN /\ routeSummary' = r.summary
     /\ routingControlRef' = r.ref
     /\ mapControls' = r.controls
     /\ routeRequests' = routeRequests \cup r.issued

\* routesfound: the summary of routes[0], when there is one.
OnRoutesFoundLast(routes, summary) ==
  IF Len(routes) > 0 THEN Some(routes[Len(routes)].summary) ELSE summary

OnRoutesFound(routes, summary) ==
  IF Len(routes) > 0 THEN Some(routes[1].summary) ELSE summary

\* ------------------------------------------------------ App's POI effect
PoiQuery(loc) == [lat |-> loc.lat, lng |-> loc.lng, radius |-> 2000]

\* fetchPois, up to its await.
RunFetchPois ==
  IF end' # None
  THEN /\ isLoadingPois' = TRUE
       /\ poiFetches' = poiFetches (+) SetToBag({PoiQuery(end'[1])})
       /\ UNCHANGED << pois, poiResponse >>
  ELSE /\ pois' = << >>
       /\ UNCHANGED << isLoadingPois, poiFetches, poiResponse >>

\* The URL-update effect and MapBoundsController's effect, run for the new
\* state of this step.
RunUrlEffect == url' = UrlOf(start', end', transportMode')

RunBoundsEffect == viewport' = BoundsEffect(start', end', pois', viewport)

\* setPois(newPois)
SetPoisMerge(prev, fetched) == prev \o fetched

SetPois(prev, fetched) == fetched

\* ---------------------------------------------------------------- actions
\* The requests in flight after this step.
InFlightNext ==
  BagCardinality(clicks') + BagCardinality(poiFetches') + Cardinality(routeRequests')
    + BagCardinality(searches')

\* MapClickHandler, up to its await: the click's point and the handler's
\* selectionMode go with the reverseGeocode request; response is what the
\* service is going to answer.
MapClick(maxClicks, maxInFlight, responses) ==
  \E p \in LatLngs, r \in responses :
    /\ mounted
    /\ clicks' = clicks (+) SetToBag({[latlng |-> p, selectionMode |-> selectionMode,
                                       response |-> r]})
    /\ latestClick' = [latestClick EXCEPT ![selectionMode] = Some(p)]
    /\ UNCHANGED << appVars, poiVars, routeVars, engine, mounted, pageVars, storyVars,
                    searchVars, focusVars, locateVars >>
    /\ engineAnswer' = NoAnswer
    /\ BagCardinality(clicks') <= maxClicks
    /\ InFlightNext <= maxInFlight

\* The point clicked last for each slot that a pending click is for.
StillAwaited(latest, pending) ==
  [slot \in SelectionModes |->
     IF \E c \in BagToSet(pending) : c.selectionMode = slot THEN latest[slot] ELSE None]

\* { lat, lng, name } of a click whose reverseGeocode has returned.
NewLoc(c) ==
  [lat |-> c.latlng.lat, lng |-> c.latlng.lng, name |-> reverseGeocode(c.response)]

\* MapClickHandler after its await: the setters it calls, with the
\* selectionMode of the render the click was made in.
ClickSettersToggle(c, s, e, sel) ==
  IF c.selectionMode = "start"
  THEN [start |-> Some(NewLoc(c)), end |-> e, selectionMode |-> "end"]
  ELSE [start |-> s, end |-> Some(NewLoc(c)), selectionMode |-> "start"]

ClickSetters(c, s, e, sel) ==
  IF c.selectionMode = "start"
  THEN [start |-> Some(NewLoc(c)), end |-> e, selectionMode |-> "end"]
  ELSE [start |-> s, end |-> Some(NewLoc(c)), selectionMode |-> sel]

\* The continuation of a click, and the effects of the setters it calls.
ClickResolved(maxInFlight) ==
  \E c \in BagToSet(clicks) :
    LET set == ClickSetters(c, start, end, selectionMode)
    IN /\ mounted
       /\ clicks' = clicks (-) SetToBag({c})
       /\ latestClick' = StillAwaited(latestClick, clicks')
       /\ start' = set.start
       /\ end' = set.end
       /\ selectionMode' = set.selectionMode
       /\ IF c.selectionMode = "end"
          THEN RunFetchPois
          ELSE UNCHANGED poiVars
       /\ UNCHANGED << transportMode, engine, mounted, storyVars, searchVars, focusVars,
                       locateVars >>
       /\ engineAnswer' = NoAnswer
       /\ RunRoutingEffect
       /\ InFlightNext <= maxInFlight
       /\ RunUrlEffect
       /\ RunBoundsEffect

\* handleSearch, up to its await: Enter in the start or the end input.  With
\* nothing typed the handler returns; otherwise the type goes with the
\* searchLocation request, and response is what the service is going to
\* answer.
HandleSearch(maxInFlight, responses) ==
  \E query \in Queries, type \in SelectionModes, r \in responses :
    /\ mounted
    /\ IF query = << >>
       THEN UNCHANGED vars
       ELSE /\ searches' = searches (+) SetToBag({[query |-> query, type |-> type,
                                                   response |-> r]})
            /\ UNCHANGED << appVars, poiVars, routeVars, clicks, engine, mounted, pageVars,
                            storyVars, latestClick, searchResults, focusVars, locateVars >>
            /\ engineAnswer' = NoAnswer
            /\ InFlightNext <= maxInFlight

\* { lat, lng, name } of the best result of a search.
BestLoc(results) ==
  [lat |-> parseFloat(Some(results[1].lat)),
   lng |-> parseFloat(Some(results[1].lon)),
   name |-> Split(results[1].display_name, ",")[1]]

\* handleSearch after its await: the setter it calls.
SearchSettersRole(results, type, s, e, sel) ==
  IF Len(results) > 0
  THEN IF type = "start"
       THEN [start |-> Some(BestLoc(results)), end |-> e, selectionMode |-> "end"]
       ELSE [start |-> s, end |-> Some(BestLoc(results)), selectionMode |-> sel]
  ELSE [start |-> s, end |-> e, selectionMode |-> sel]

SearchSettersClear(results, type, s, e, sel) ==
  IF type = "start"
  THEN [start |-> IF Len(results) > 0 THEN Some(BestLoc(results)) ELSE None,
        end |-> e, selectionMode |-> sel]
  ELSE [start |-> s,
        end |-> IF Len(results) > 0 THEN Some(BestLoc(results)) ELSE None,
        selectionMode |-> sel]

SearchSetters(results, type, s, e, sel) ==
  IF Len(results) > 0
  THEN IF type = "start"
       THEN [start |-> Some(BestLoc(results)), end |-> e, selectionMode |-> sel]
       ELSE [start |-> s, end |-> Some(BestLoc(results)), selectionMode |-> sel]
  ELSE [start |-> s, end |-> e, selectionMode |-> sel]

\* The continuation of a search, and the effects of the setter it calls.
SearchResolved(maxInFlight) ==
  \E q \in BagToSet(searches) :
    LET results == searchLocation(q.response)
        set == SearchSetters(results, q.type, start, end, selectionMode)
    IN /\ mounted
       /\ searches' = searches (-) SetToBag({q})
       /\ searchResults' = Some([response |-> q.response, results |-> results])
       /\ start' = set.start
       /\ end' = set.end
       /\ selectionMode' = set.selectionMode
       /\ engineAnswer' = NoAnswer
       /\ UNCHANGED << transportMode, clicks, engine, mounted, storyVars, latestClick,
                       focusVars, locateVars >>
       /\ IF Len(results) > 0
          THEN /\ IF q.type = "end"
                  THEN RunFetchPois
                  ELSE UNCHANGED poiVars
               /\ RunRoutingEffect
               /\ InFlightNext <= maxInFlight
               /\ RunUrlEffect
               /\ RunBoundsEffect
          ELSE UNCHANGED << poiVars, routeVars, pageVars >>

\* Sidebar: a click on a POI of the list (shown with start and end set, and
\* not while the POIs load): setFocusedPoi, and PoiMarkers' effect.  The
\* POI clicked may be the very object that is focused, and then nothing is
\* rendered, or an equal one of a later fetch.
SelectPoi ==
  \E i \in 1..Len(pois) :
    \E sameObject \in IF focusedPoi = Some(pois[i]) THEN BOOLEAN ELSE {FALSE} :
      LET r == FocusEffect(Some(pois[i]), pois, viewport, openPopup)
      IN /\ mounted
         /\ start # None
         /\ end # None
         /\ ~isLoadingPois
         /\ focusedPoi' = Some(pois[i])
         /\ viewport' = IF sameObject THEN viewport ELSE r.viewport
         /\ openPopup' = IF sameObject THEN openPopup ELSE r.popup
         /\ engineAnswer' = NoAnswer
         /\ UNCHANGED << appVars, poiVars, routeVars, clicks, engine, mounted, url,
                         storyVars, latestClick, searchVars, locateVars >>

\* LocateControl: the button.  map.locate() asks the browser for the
\* position and once() registers a listener of 'locationfound'; answer is
\* what the browser is going to answer.
HandleLocate ==
  \E answer \in LocateAnswers :
    /\ mounted
    /\ BagCardinality(locates) < MaxLocates
    /\ locateListeners < MaxLocates
    /\ locates' = locates (+) SetToBag({answer})
    /\ locateListeners' = locateListeners + 1
    /\ engineAnswer' = NoAnswer
    /\ UNCHANGED << appVars, poiVars, routeVars, clicks, engine, mounted, pageVars,
                    storyVars, latestClick, searchVars, focusVars >>

\* The browser has the position: Leaflet fires 'locationfound'.
LocationFound ==
  \E l \in BagToSet(locates) :
    LET r == OnLocationFound(locateListeners, l.latlng, viewport)
    IN /\ mounted
       /\ l.status = "found"
       /\ locates' = locates (-) SetToBag({l})
       /\ viewport' = r.viewport
       /\ locateListeners' = r.listeners
       /\ engineAnswer' = NoAnswer
       /\ UNCHANGED << appVars, poiVars, routeVars, clicks, engine, mounted, url,
                       storyVars, latestClick, searchVars, focusVars >>

\* The browser has no position: Leaflet fires 'locationerror', which
\* nothing listens to.
LocationError ==
  \E l \in BagToSet(locates) :
    /\ mounted
    /\ l.status = "error"
    /\ locates' = locates (-) SetToBag({l})
    /\ engineAnswer' = NoAnswer
    /\ UNCHANGED << appVars, poiVars, routeVars, clicks, engine, mounted, pageVars,
                    storyVars, latestClick, searchVars, focusVars, locateListeners >>

\* Sidebar: a click in the start or the end input.
SetSelectionMode ==
  \E m \in SelectionModes :
    /\ mounted
    /\ m # selectionMode
    /\ selectionMode' = m
    /\ UNCHANGED << start, end, transportMode, poiVars, routeVars, clicks, engine, mounted,
                    pageVars, storyVars, sideVars >>
    /\ engineAnswer' = NoAnswer

\* TransportControl and Sidebar: a mode button.  Setting the mode it already
\* has renders nothing.
SetTransportMode(maxInFlight) ==
  \E m \in TransportModes :
    /\ mounted
    /\ m # transportMode
    /\ transportMode' = m
    /\ UNCHANGED << start, end, selectionMode, poiVars, clicks, engine, mounted,
                    viewport, storyVars, sideVars >>
    /\ engineAnswer' = NoAnswer
    /\ RunRoutingEffect
    /\ InFlightNext <= maxInFlight
    /\ RunUrlEffect

\* fetchPois after its await.
PoiFetchResolved(statuses, maxElems) ==
  \E q \in BagToSet(poiFetches) :
    \E response \in OverpassResponses(q, statuses, maxElems) :
      /\ mounted
      /\ poiFetches' = poiFetches (-) SetToBag({q})
      /\ poiResponse' = Some(response)
      /\ pois' = SetPois(pois, getPOIs(response))
      /\ isLoadingPois' = FALSE
      /\ UNCHANGED << appVars, routeVars, clicks, engine, mounted, url, storyVars, sideVars >>
      /\ engineAnswer' = NoAnswer
      /\ RunBoundsEffect

\* A control fires 'routesfound', attached or not.
RoutesFound ==
  \E c \in routeRequests :
    \E routes \in RoutesFor(c) :
      /\ mounted
      /\ routeRequests' = routeRequests \ {c}
      /\ routeSummary' = OnRoutesFound(routes, routeSummary)
      /\ engineAnswer' = [kind |-> "routesfound", count |-> Len(routes)]
      /\ UNCHANGED << appVars, poiVars, routingControlRef, mapControls, clicks,
                      engine, mounted, pageVars, storyVars, latestClick, searchVars,
                      focusVars, locateVars >>

\* A control's request fails ('routingerror', which nothing listens to).
RoutingFailed ==
  \E c \in routeRequests :
    /\ mounted
    /\ routeRequests' = routeRequests \ {c}
    /\ engineAnswer' = [kind |-> "routingerror"]
    /\ UNCHANGED << appVars, poiVars, routeSummary, routingControlRef, mapControls,
                    clicks, engine, mounted, pageVars, storyVars, latestClick, searchVars,
                    focusVars, locateVars >>

\* The tree is unmounted: the last cleanup of RoutingMachine's effect runs.
\* No continuation of a request in flight finds a mounted component to
\* update, so the requests are dropped with it.
Unmount ==
  /\ mounted
  /\ mounted' = FALSE
  /\ mapControls' = EffectCleanup(mapControls, routingControlRef)
  /\ clicks' = EmptyBag
  /\ poiFetches' = EmptyBag
  /\ routeRequests' = {}
  /\ searches' = EmptyBag
  /\ locates' = EmptyBag
  /\ locateListeners' = 0
  /\ latestClick' = NoClick
  /\ UNCHANGED << appVars, pois, isLoadingPois, poiResponse, routeSummary,
                  routingControlRef, engine, pageVars, storyVars, searchResults, focusVars >>
  /\ engineAnswer' = NoAnswer

\* Links the page may be opened from, besides the one it shows.
Links ==
  { << "s", "t", "a", "r", "t", "=", "a", "b", "c" >>,
    << "s", "t", "a", "r", "t", "=", "1", "|", "1" >>,
    << "e", "n", "d", "=", "1", "|", "x", "|", "a" >>,
    << "s", "t", "a", "r", "t", "=", "1", "|", "1", "|", "%" >>,
    << "m", "o", "d", "e", "=", "b", "u", "s" >>,
    << "e", "n", "d", "=", "2", "|", "2", "|", "b", "&", "m", "o", "d", "e", "=", "f", "o", "o", "t" >> }

\* With the page closed, another link is entered in the address bar.
Navigate(links) ==
  \E l \in links :
    /\ ~mounted
    /\ url' = l
    /\ UNCHANGED << appVars, poiVars, routeVars, clicks, engine, mounted, viewport, storyVars, sideVars >>
    /\ engineAnswer' = NoAnswer

\* The page is opened from the link in the address bar: the state after
\* construction, the URL-load effect, and the effects of what it sets.
Startup(maxInFlight) ==
  LET params == SearchParams(url)
      s == LoadWaypoint(ParamGet(params, KeyStart))
      e == LoadWaypoint(ParamGet(params, KeyEnd))
      m == LoadMode(ParamGet(params, KeyMode))
      r == RoutingEffect(s, e, m, engine, {}, None, None)
  IN /\ ~mounted
     /\ mounted' = TRUE
     /\ start' = s
     /\ end' = e
     /\ transportMode' = m
     /\ selectionMode' = "start"
     /\ pois' = << >>
     /\ isLoadingPois' = (e # None)
     /\ poiFetches' = IF e # None THEN SetToBag({PoiQuery(e[1])}) ELSE EmptyBag
     /\ poiResponse' = None
     /\ clicks' = EmptyBag
     /\ routeSummary' = r.summary
     /\ routingControlRef' = r.ref
     /\ mapControls' = r.controls
     /\ routeRequests' = r.issued
     /\ url' = UrlOf(s, e, m)
     /\ viewport' = BoundsEffect(s, e, << >>, DefaultView)
     /\ story' = << >>
     /\ isGenerating' = FALSE
     /\ generation' = Idle
     /\ engineAnswer' = NoAnswer
     /\ latestClick' = NoClick
     /\ searches' = EmptyBag
     /\ searchResults' = None
     /\ focusedPoi' = None
     /\ openPopup' = None
     /\ locates' = EmptyBag
     /\ locateListeners' = 0
     /\ UNCHANGED << engine, apiKey, genRequests >>
     /\ InFlightNext <= maxInFlight

\* The state of the page once opened from a link: the state after
\* construction, the URL-load effect, and the effects of what it sets.
InitFrom(link, engines, keys) ==
  LET params == SearchParams(link)
      s == LoadWaypoint(ParamGet(params, KeyStart))
      e == LoadWaypoint(ParamGet(params, KeyEnd))
      m == LoadMode(ParamGet(params, KeyMode))
  IN /\ engine \in engines
     /\ apiKey \in keys
     /\ mounted = TRUE
     /\ start = s
     /\ end = e
     /\ transportMode = m
     /\ selectionMode = "start"
     /\ pois = << >>
     /\ isLoadingPois = (e # None)
     /\ poiFetches = IF e # None THEN SetToBag({PoiQuery(e[1])}) ELSE EmptyBag
     /\ poiResponse = None
     /\ clicks = EmptyBag
     /\ routeSummary = RoutingEffect(s, e, m, engine, {}, None, None).summary
     /\ routingControlRef = RoutingEffect(s, e, m, engine, {}, None, None).ref
     /\ mapControls = RoutingEffect(s, e, m, engine, {}, None, None).controls
     /\ routeRequests = RoutingEffect(s, e, m, engine, {}, None, None).issued
     /\ url = UrlOf(s, e, m)
     /\ viewport = BoundsEffect(s, e, << >>, DefaultView)
     /\ story = << >>
     /\ isGenerating = FALSE
     /\ generation = Idle
     /\ genRequests = 0
     /\ engineAnswer = NoAnswer
     /\ latestClick = NoClick
     /\ searches = EmptyBag
     /\ searchResults = None
     /\ focusedPoi = None
     /\ openPopup = None
     /\ locates = EmptyBag
     /\ locateListeners = 0

\* --------------------------------------------------- handleGenerateStory
storyOthers ==
  << appVars, poiVars, routeVars, clicks, engine, mounted, pageVars, apiKey, sideVars >>

\* The button 'generate' is enabled: disabled={!start || !end || isGenerating}.
CanGenerateBusy(s, e, generating) == s # None /\ e # None

CanGenerate(s, e, generating) == s # None /\ e # None /\ ~generating

\* The finally of the handler: setIsGenerating(false).
FinallySkipped(generating) == generating

Finally(generating) == FALSE

\* The button 'generate' (disabled without start and end and while a story
\* is generated): the handler up to its await.  Without a credential
\* generateStoryStream has thrown by then, and the catch and the finally of
\* the handler run before any other event.
GenerateStory ==
  /\ mounted
  /\ CanGenerate(start, end, isGenerating)
  /\ IF IssuesRequest(apiKey)
     THEN /\ genRequests < MaxGenerations
          /\ genRequests' = genRequests + 1
          /\ isGenerating' = TRUE
          /\ story' = << >>
          /\ generation' = [phase |-> "requested", fullStory |-> << >>, received |-> << >>]
     ELSE /\ genRequests' = genRequests
          /\ isGenerating' = Finally(TRUE)
          /\ story' = OnStoryError(<< >>)
          /\ generation' = [phase |-> "failed", fullStory |-> << >>, received |-> << >>]
  /\ UNCHANGED storyOthers
  /\ engineAnswer' = NoAnswer

\* generateContentStream resolves: the handler enters its loop.
StreamOpened ==
  /\ mounted
  /\ generation.phase = "requested"
  /\ generation' = [generation EXCEPT !.phase = "streaming"]
  /\ UNCHANGED << story, isGenerating, genRequests, storyOthers >>
  /\ engineAnswer' = NoAnswer

\* generateContentStream rejects: generateStoryStream rethrows, the handler
\* catches.
RequestFailed ==
  /\ mounted
  /\ generation.phase = "requested"
  /\ generation' = [generation EXCEPT !.phase = "failed"]
  /\ story' = OnStoryError(story)
  /\ isGenerating' = Finally(isGenerating)
  /\ UNCHANGED << genRequests, storyOthers >>
  /\ engineAnswer' = NoAnswer

\* One turn of the loop: a fragment arrives.
ChunkArrived ==
  \E text \in Fragments :
    LET fullStory == AppendText(generation.fullStory, text)
    IN /\ mounted
       /\ generation.phase = "streaming"
       /\ Len(generation.received) < MaxChunks
       /\ generation' = [generation EXCEPT !.fullStory = IF text # << >> THEN fullStory ELSE @,
                                           !.received = Append(@, text)]
       /\ story' = IF text # << >> THEN fullStory ELSE story
       /\ UNCHANGED << isGenerating, genRequests, storyOthers >>
       /\ engineAnswer' = NoAnswer

\* The stream ends: the finally of the handler.
StreamEnded ==
  /\ mounted
  /\ generation.phase = "streaming"
  /\ generation' = [generation EXCEPT !.phase = "done"]
  /\ isGenerating' = Finally(isGenerating)
  /\ UNCHANGED << story, genRequests, storyOthers >>
  /\ engineAnswer' = NoAnswer

\* The stream throws in the middle: the catch and the finally.
StreamBroke ==
  /\ mounted
  /\ generation.phase = "streaming"
  /\ generation' = [generation EXCEPT !.phase = "failed"]
  /\ story' = OnStoryError(story)
  /\ isGenerating' = Finally(isGenerating)
  /\ UNCHANGED << genRequests, storyOthers >>
  /\ engineAnswer' = NoAnswer


\* ---------------------------------------------------------- specifications
\* The click handler with the geocoder in full; the routing engine is not
\* loaded and the POI service is unreachable.
ClickInit == InitWith({"missing"}, {TRUE})

ClickNext ==
  \/ MapClick(ClickMaxInFlight, ClickMaxInFlight, GeoResponses)
  \/ ClickResolved(ClickMaxInFlight)
  \/ SetSelectionMode
  \/ PoiFetchResolved(OverpassDown, MaxElems)
  \/ Unmount

ClickSpec == ClickInit /\ [][ClickNext]_vars

\* The POI effect with the POI service in full; the routing engine is not
\* loaded and the geocoder never answers.
PoiInit == InitWith({"missing"}, {TRUE})

PoiNext ==
  \/ MapClick(MaxClicks, PoiMaxInFlight, {GeoFailure})
  \/ ClickResolved(PoiMaxInFlight)
  \/ SetSelectionMode
  \/ SetTransportMode(PoiMaxInFlight)
  \/ PoiFetchResolved(OverpassStatuses, MaxElems)
  \/ Unmount

PoiSpec == PoiInit /\ [][PoiNext]_vars

\* The routing-control lifecycle in full, with any engine; the geocoder
\* never answers and the POI service is unreachable.
RouteInit == InitWith(Engines, {TRUE})

RouteNext ==
  \/ MapClick(MaxClicks, RouteMaxInFlight, {GeoFailure})
  \/ ClickResolved(RouteMaxInFlight)
  \/ SetSelectionMode
  \/ SetTransportMode(RouteMaxInFlight)
  \/ PoiFetchResolved(OverpassDown, MaxElems)
  \/ RoutesFound
  \/ RoutingFailed
  \/ Unmount

RouteSpec == RouteInit /\ [][RouteNext]_vars

\* getPOIs on every answer of the tagged-data service, lists of several
\* elements included; the destination is set by clicks.
ServiceInit == InitWith({"missing"}, {TRUE})

ServiceNext ==
  \/ MapClick(MaxClicks, SideMaxInFlight, {GeoFailure})
  \/ ClickResolved(SideMaxInFlight)
  \/ PoiFetchResolved(OverpassStatuses, ServiceMaxElems)

ServiceSpec == ServiceInit /\ [][ServiceNext]_vars

\* The story generation, with and without a credential, for a trip set by
\* clicks.
StoryInit == InitWith({"missing"}, BOOLEAN)

StoryNext ==
  \/ MapClick(MaxClicks, SideMaxInFlight, {GeoFailure})
  \/ ClickResolved(SideMaxInFlight)
  \/ PoiFetchResolved(OverpassDown, MaxElems)
  \/ GenerateStory
  \/ StreamOpened
  \/ RequestFailed
  \/ ChunkArrived
  \/ StreamEnded
  \/ StreamBroke

StorySpec == StoryInit /\ [][StoryNext]_vars

\* The same, with a text service that answers every request, by a stream
\* or a rejection, and ends or breaks every stream it has opened.
StoryLiveSpec ==
  /\ StoryInit
  /\ [][StoryNext]_vars
  /\ WF_vars(StreamOpened \/ RequestFailed)
  /\ WF_vars(StreamEnded \/ StreamBroke)

\* The search form with the search service in full, beside clicks on the
\* map; the routing engine is not loaded, and the geocoder and the POI
\* service are unreachable.
SearchInit == InitWith({"missing"}, {TRUE})

SearchNext ==
  \/ HandleSearch(SideMaxInFlight, SearchResponses)
  \/ SearchResolved(SideMaxInFlight)
  \/ MapClick(MaxClicks, SideMaxInFlight, {GeoFailure})
  \/ ClickResolved(SideMaxInFlight)
  \/ SetSelectionMode
  \/ PoiFetchResolved(OverpassDown, MaxElems)

SearchSpec == SearchInit /\ [][SearchNext]_vars

\* The POI list and the focus on one of its POIs, with the POI service in
\* full; the destination is set by clicks.
FocusInit == InitWith({"missing"}, {TRUE})

FocusNext ==
  \/ MapClick(MaxClicks, SideMaxInFlight, {GeoFailure})
  \/ ClickResolved(SideMaxInFlight)
  \/ PoiFetchResolved(OverpassStatuses, MaxElems)
  \/ SelectPoi

FocusSpec == FocusInit /\ [][FocusNext]_vars

\* The locate button with any answer of the browser, beside a trip set by
\* clicks; the POI service is unreachable.
LocateInit == InitWith({"missing"}, {TRUE})

LocateNext ==
  \/ MapClick(MaxClicks, SideMaxInFlight, {GeoFailure})
  \/ ClickResolved(SideMaxInFlight)
  \/ PoiFetchResolved(OverpassDown, MaxElems)
  \/ HandleLocate
  \/ LocationFound
  \/ LocationError

LocateSpec == LocateInit /\ [][LocateNext]_vars

\* A session with every operation around the trip: the page opened from a
\* link or without one, then clicks, searches, role and mode changes, and
\* the story.  The routing engine is not loaded, the geocoder and the POI
\* service are unreachable, the search service fails or finds one place, and
\* the text service rejects every request.
SessionResponses == {r \in SearchResponses : Len(r.data) = 1} \cup {SearchFailure}
SessionLinks ==
  {<< >>} \cup {l \in Links : ParamGet(SearchParams(l), KeyMode) = Some(ModeText.foot)}

SessionInit == \E l \in SessionLinks : InitFrom(l, {"missing"}, {TRUE})

SessionNext ==
  \/ MapClick(MaxClicks, SideMaxInFlight, {GeoFailure})
  \/ ClickResolved(SideMaxInFlight)
  \/ HandleSearch(SideMaxInFlight, SessionResponses)
  \/ SearchResolved(SideMaxInFlight)
  \/ SetSelectionMode
  \/ SetTransportMode(SideMaxInFlight)
  \/ PoiFetchResolved(OverpassDown, MaxElems)
  \/ GenerateStory
  \/ RequestFailed

SessionSpec == SessionInit /\ [][SessionNext]_vars

\* The shareable link: waypoints named by the geocoder with names that need
\* escaping, and the page closed and opened again from the link it showed
\* or from another.
LinkDisplayNames == { << >>, << "|", "a" >>, << "%", "&" >> }
LinkGeoResponses == {[status |-> "ok", display_name |-> d] : d \in LinkDisplayNames}

LinkInit == InitWith({"missing"}, {TRUE})

LinkNext ==
  \/ MapClick(MaxClicks, SideMaxInFlight, LinkGeoResponses)
  \/ ClickResolved(SideMaxInFlight)
  \/ SetSelectionMode
  \/ SetTransportMode(SideMaxInFlight)
  \/ PoiFetchResolved(OverpassDown, MaxElems)
  \/ Unmount
  \/ Navigate(Links)
  \/ Startup(SideMaxInFlight)

LinkSpec == LinkInit /\ [][LinkNext]_vars

\* ----------------------------------------------------------------- claims
\* The continuation of a pending click runs in this step (the tree stays
\* mounted and the click leaves the bag).
Resolves(c) == mounted' /\ CopiesIn(c, clicks') < CopiesIn(c, clicks)

\* A click joins the bag of pending clicks in this step.
Clicked(c) == CopiesIn(c, clicks') > CopiesIn(c, clicks)

\* The waypoints and the profile the current trip state asks a route for.
CurrentWaypoints == << latLng(start[1]), latLng(end[1]) >>

ModeProfile == [car |-> "driving", bike |-> "cycling", foot |-> "walking"]
ModeColor == [car |-> "#3b82f6", bike |-> "#f59e0b", foot |-> "#10b981"]

\* C1: a displayed route summary is the answer to the request issued for
\* the current (start, end, transportMode).
C1_SummaryIsCurrent ==
  routeSummary # None =>
    /\ start # None
    /\ end # None
    /\ routeSummary[1] = PrimarySummary(CurrentWaypoints, ModeProfile[transportMode])

\* C2: the answer to a POI fetch made for another point than the current
\* end does not change the POI list.
C2_StaleAnswerDiscarded ==
  [][\A q \in BagToSet(poiFetches) :
       (CopiesIn(q, poiFetches') < CopiesIn(q, poiFetches)
          /\ end # None /\ latLng(q) # latLng(end[1]))
       => pois' = pois]_vars

\* C3: the role is START at first; a click made while the role is START
\* sets start to the clicked point and makes the role END; a click made
\* while the role is END sets end to the clicked point and does not change
\* the role (which stays END when it is END).
C3_RoleAdvance ==
  /\ selectionMode = "start"
  /\ [][\A c \in BagToSet(clicks) :
          Resolves(c) =>
            /\ c.selectionMode = "start" =>
                 /\ start' # None
                 /\ latLng(start'[1]) = c.latlng
                 /\ end' = end
                 /\ selectionMode' = "end"
            /\ c.selectionMode = "end" =>
                 /\ end' # None
                 /\ latLng(end'[1]) = c.latlng
                 /\ start' = start
                 /\ selectionMode' = selectionMode]_vars

C3_Witness ==
  /\ start # None
  /\ end # None
  /\ selectionMode = "end"
  /\ clicks = EmptyBag

\* C4: a step that changes start, end or the transport mode leaves the
\* summary empty and no control on the map but the one made for the new
\* inputs, whose request is then in flight.
C4_TeardownWithRequest ==
  [][<< start', end', transportMode' >> # << start, end, transportMode >> =>
       /\ routeSummary' = None
       /\ \A c \in mapControls' :
            /\ start' # None
            /\ end' # None
            /\ c = [waypoints |-> << latLng(start'[1]), latLng(end'[1]) >>,
                    profile |-> ModeProfile[transportMode'],
                    color |-> ModeColor[transportMode']]
            /\ c \in routeRequests'
       /\ \A c \in routeRequests' \ routeRequests : c \in mapControls']_vars

\* A request was superseded while it was in flight, and the step that
\* superseded it has left an empty summary and the new control.
C4_Witness ==
  /\ routeSummary = None
  /\ mapControls # {}
  /\ \E c \in routeRequests : c \notin mapControls
  /\ mapControls \subseteq routeRequests

\* C5: at most one routing control is attached to the map, it is the one
\* RoutingMachine registered, and none is attached after the unmount.
C5_OneControl ==
  /\ Cardinality(mapControls) <= 1
  /\ \A c \in mapControls : routingControlRef = Some(c)
  /\ ~mounted => mapControls = {}

C5_Witness ==
  /\ ~mounted
  /\ routingControlRef # None
  /\ mapControls = {}

C6_Attached ==
  /\ mapControls # {} => (start # None /\ end # None)
  /\ (start = None \/ end = None) =>
       /\ mapControls = {}
       /\ routingControlRef = None
       /\ routeRequests = {}
       /\ routeSummary = None
  /\ (mounted /\ start # None /\ end # None /\ engine = "ok") =>
       \E c \in mapControls : c.waypoints = CurrentWaypoints

\* C6: a control is attached only when start and end are both set; while
\* one of them is unset there is no control, no request and no summary;
\* while both are set and the engine works, the control for them is
\* attached; and the step in which both become set, with the engine
\* working, puts that control's request in flight.
C6_ControlIffBothSet ==
  /\ []C6_Attached
  /\ [][((start = None \/ end = None) /\ start' # None /\ end' # None /\ engine = "ok") =>
          \E c \in routeRequests' :
            /\ c \in mapControls'
            /\ c.waypoints = << latLng(start'[1]), latLng(end'[1]) >>]_vars

C6_Witness ==
  /\ start # None
  /\ end # None
  /\ engine = "ok"
  /\ \E c \in mapControls : c \in routeRequests

\* C7: the attached control has the profile and the colour of the current
\* transport mode, and a summary that is displayed was computed for that
\* profile (after a change of mode the summary stays empty until the new
\* request is answered).
C7_ProfileOfMode ==
  /\ \A c \in mapControls :
       /\ c.profile = ModeProfile[transportMode]
       /\ c.color = ModeColor[transportMode]
  /\ routeSummary # None =>
       routeSummary[1].totalTime =
         routeSummary[1].totalDistance * Pace(ModeProfile[transportMode])

\* The prefix of s before its first comma.
FirstSegment(s) ==
  LET k == CHOOSE k \in 0..Len(s) :
             /\ \A i \in 1..k : s[i] # ","
             /\ k = Len(s) \/ s[k + 1] = ","
  IN SubSeq(s, 1, k)

ExpectedName(response) ==
  IF response.status = "ok" THEN FirstSegment(response.display_name)
  ELSE <<"L", "i", "e", "u", " ", "i", "n", "c", "o", "n", "n", "u">>

\* C8: the continuation of a click sets the waypoint of the click's role at
\* the clicked point, named 'Lieu inconnu' when the reverse geocoding failed
\* or had no display name, and else by the first comma-delimited segment of
\* the display name.
C8_WaypointNamed ==
  [][\A c \in BagToSet(clicks) :
       Resolves(c) =>
         LET loc == [lat |-> c.latlng.lat, lng |-> c.latlng.lng,
                     name |-> ExpectedName(c.response)]
         IN IF c.selectionMode = "start" THEN start' = Some(loc) ELSE end' = Some(loc)]_vars

C8_Witness ==
  /\ start # None
  /\ start[1].name = LieuInconnu
  /\ end # None
  /\ end[1].name = <<"a">>

\* C9: a click sets the waypoint of the active role in the step of the
\* click, before its reverse geocoding has returned.
C9_SetAtClick ==
  [][\A c \in BagToSet(clicks') :
       Clicked(c) =>
         IF c.selectionMode = "start"
         THEN start' # None /\ latLng(start'[1]) = c.latlng
         ELSE end' # None /\ latLng(end'[1]) = c.latlng]_vars

\* C10: every POI of the list was fetched around the current end.
C10_PoisOfCurrentEnd ==
  \A i \in 1..Len(pois) :
    /\ end # None
    /\ pois[i].lat = end[1].lat
    /\ pois[i].lng = end[1].lng

\* A POI fetch is issued, and the continuation of one runs, in this step.
FetchAdded(q) == CopiesIn(q, poiFetches') > CopiesIn(q, poiFetches)
FetchAnswered(q) == mounted' /\ CopiesIn(q, poiFetches') < CopiesIn(q, poiFetches)

\* The records of a list of raw elements that have a name or, failing that,
\* a description, in the order of the list, under that name.
RECURSIVE NamedRecords(_)
NamedRecords(els) ==
  IF els = << >> THEN << >>
  ELSE LET el == Head(els)
           named == IF el.tags.name # << >>
                    THEN << [id |-> el.id, lat |-> el.lat, lng |-> el.lon,
                             name |-> el.tags.name] >>
                    ELSE IF el.tags.description # << >>
                         THEN << [id |-> el.id, lat |-> el.lat, lng |-> el.lon,
                                  name |-> el.tags.description] >>
                         ELSE << >>
       IN named \o NamedRecords(Tail(els))

FetchedSet(response) ==
  IF response.status = "ok" THEN NamedRecords(response.elements) ELSE << >>

\* C11: a step that changes the end coordinate issues a POI fetch of radius
\* 2000 around the new end; a step that changes start, the transport mode
\* or the selection role and leaves end issues none; and when a fetch
\* returns, the POI list is what it fetched and nothing else.
C11_FetchPerDestination ==
  [][/\ (end' # None /\ (end = None \/ latLng(end'[1]) # latLng(end[1]))) =>
          FetchAdded([lat |-> end'[1].lat, lng |-> end'[1].lng, radius |-> 2000])
     /\ (end' = end /\ << start', transportMode', selectionMode' >>
                         # << start, transportMode, selectionMode >>) =>
          \A q \in BagToSet(poiFetches') : ~FetchAdded(q)
     /\ \A q \in BagToSet(poiFetches) :
          FetchAnswered(q) =>
            /\ poiResponse' # None
            /\ pois' = FetchedSet(poiResponse'[1])]_vars

C11_Witness ==
  /\ start # None
  /\ transportMode = "bike"
  /\ pois # << >>
  /\ poiFetches # EmptyBag

\* C12: when a fetch fails (the request throws, the body has no elements
\* field, or its elements are malformed), its continuation leaves an empty
\* POI list and the loading flag false.
C12_FailedFetchEmpties ==
  [][\A q \in BagToSet(poiFetches) :
       (FetchAnswered(q) /\ poiResponse' # None
          /\ poiResponse'[1].status \in {"neterror", "noelements", "malformed"}) =>
         /\ pois' = << >>
         /\ isLoadingPois' = FALSE]_vars

C12_Witness ==
  /\ end # None
  /\ poiResponse # None
  /\ poiResponse[1].status = "malformed"
  /\ pois = << >>
  /\ ~isLoadingPois

\* C13: the POI list made of an answer of the tagged-data service holds, in
\* the order of the answer, exactly the records with a name tag or else a
\* description tag, under that name; a record with neither is left out.
C13_NamedInOrder ==
  (poiResponse # None /\ poiResponse[1].status = "ok") =>
    /\ pois = NamedRecords(poiResponse[1].elements)
    /\ \A k \in 1..Len(poiResponse[1].elements) :
         LET el == poiResponse[1].elements[k]
         IN (el.tags.name = << >> /\ el.tags.description = << >>) =>
              \A i \in 1..Len(pois) : pois[i].id # el.id

C13_Witness ==
  /\ poiResponse # None
  /\ poiResponse[1].status = "ok"
  /\ Len(poiResponse[1].elements) = 2
  /\ poiResponse[1].elements[2].tags.name = << >>
  /\ poiResponse[1].elements[2].tags.description = << >>
  /\ Len(pois) = 1
  /\ pois[1].name = << "d" >>

\* The text of the fragments, one after the other.
RECURSIVE TextOf(_)
TextOf(fragments) ==
  IF fragments = << >> THEN << >>
  ELSE TextOf(SubSeq(fragments, 1, Len(fragments) - 1)) \o fragments[Len(fragments)]

\* C14: while a story streams, the displayed story is the text of the
\* fragments received so far, in the order of arrival, and each fragment
\* extends the displayed story by its text in the step it arrives.
C14_StoryOfFragments ==
  /\ [](generation.phase = "streaming" => story = TextOf(generation.received))
  /\ [][(generation.phase = "streaming" /\ generation'.phase = "streaming"
           /\ generation'.received # generation.received) =>
          /\ Len(generation'.received) = Len(generation.received) + 1
          /\ story' = story \o generation'.received[Len(generation'.received)]]_vars

C14_Witness ==
  /\ generation.phase = "streaming"
  /\ generation.received = << << "a" >>, << >>, << "b" >> >>
     \/ generation.received = << << "a" >>, << "b" >> >>
  /\ story = << "a", "b" >>

\* C15: without a credential no call of the generative text service is
\* ever made.
C15_NoKeyNoRequest ==
  ~apiKey =>
    /\ genRequests = 0
    /\ generation.phase \in {"idle", "failed"}

C15_Witness ==
  /\ ~apiKey
  /\ generation.phase = "failed"

\* C16: after a story generation has failed (no credential, the request
\* rejected, or the stream broken), the displayed story is the apology and
\* the generation flag is false.
C16_FailureApologises ==
  generation.phase = "failed" =>
    /\ story = << "D", "e", "s", "o", "l", "e" >>
    /\ ~isGenerating

C16_Witness ==
  /\ generation.phase = "failed"
  /\ generation.received # << >>
  /\ apiKey

\* C17: opening the page from the link it showed for a trip state gives
\* that trip state again: the same start and end (coordinates and names)
\* and the same transport mode.
C17_LinkRoundTrip ==
  [][(~mounted /\ mounted' /\ url = UrlOf(start, end, transportMode)) =>
       /\ start' = start
       /\ end' = end
       /\ transportMode' = transportMode]_vars

C17_Witness ==
  /\ ~mounted
  /\ url = UrlOf(start, end, transportMode)
  /\ start # None
  /\ start[1].name = << "%", "&" >>
  /\ end # None
  /\ end[1].name = << "|", "a" >>
  /\ transportMode = "foot"

\* Text that is a number, and a parameter of three fields of which the
\* first two are numbers.
IsNumber(t) == t # << >> /\ \A i \in 1..Len(t) : IsDigit(t[i])

WellFormed(param) ==
  /\ param # None
  /\ LET fields == Split(param[1], "|")
     IN Len(fields) = 3 /\ IsNumber(fields[1]) /\ IsNumber(fields[2])

\* C18: when the page is opened, a start or end parameter that is not of
\* three '|'-delimited fields with numeric latitude and longitude leaves
\* that waypoint unset, and a mode parameter that names no mode leaves the
\* mode 'car'.
C18_MalformedIgnored ==
  [][(~mounted /\ mounted') =>
       LET params == SearchParams(url)
           mode == ParamGet(params, KeyMode)
       IN /\ ~WellFormed(ParamGet(params, KeyStart)) => start' = None
          /\ ~WellFormed(ParamGet(params, KeyEnd)) => end' = None
          /\ (mode = None \/ mode[1] \notin {ModeText[m] : m \in TransportModes}) =>
               transportMode' = "car"]_vars

\* The points known in the next state, and the effect of MapBoundsController
\* having run in this step.
PointsNext ==
  (IF start' # None THEN {[lat |-> start'[1].lat, lng |-> start'[1].lng]} ELSE {})
  \cup (IF end' # None THEN {[lat |-> end'[1].lat, lng |-> end'[1].lng]} ELSE {})
  \cup {[lat |-> pois'[i].lat, lng |-> pois'[i].lng] : i \in 1..Len(pois')}

BoundsRan ==
  \/ \E c \in BagToSet(clicks) : Resolves(c)
  \/ \E q \in BagToSet(poiFetches) : FetchAnswered(q)

\* C19: when start, end or the POI list is set, the viewport is fitted with
\* a padding of 50 to the bounds of all known points if there is a POI or
\* both start and end are set; else it is centred on start at zoom 13 if
\* start is set; else it is left as it was.  No other step moves it.
C19_ViewportPolicy ==
  [][IF ~BoundsRan THEN viewport' = viewport
     ELSE IF Len(pois') > 0 \/ (start' # None /\ end' # None)
     THEN /\ viewport'.kind = "fitBounds"
          /\ viewport'.padding = 50
          /\ \A pt \in PointsNext :
               /\ viewport'.bounds.south <= pt.lat /\ pt.lat <= viewport'.bounds.north
               /\ viewport'.bounds.west <= pt.lng /\ pt.lng <= viewport'.bounds.east
          /\ \E pt \in PointsNext : pt.lat = viewport'.bounds.south
          /\ \E pt \in PointsNext : pt.lat = viewport'.bounds.north
          /\ \E pt \in PointsNext : pt.lng = viewport'.bounds.west
          /\ \E pt \in PointsNext : pt.lng = viewport'.bounds.east
     ELSE IF start' # None
     THEN viewport' = [kind |-> "setView",
                       center |-> [lat |-> start'[1].lat, lng |-> start'[1].lng],
                       zoom |-> 13]
     ELSE viewport' = viewport]_vars

\* Only end is set and the POI list was emptied: the viewport is still the
\* one fitted to the POIs there were.
C19_Witness ==
  /\ start = None
  /\ end # None
  /\ pois = << >>
  /\ viewport.kind = "fitBounds"

\* C20: when the routing engine is not loaded or cannot make its control,
\* no routing control is registered or attached, no request is made and
\* the route summary is empty, whatever the trip state.
C20_NoEngineNoRoute ==
  engine # "ok" =>
    /\ mapControls = {}
    /\ routingControlRef = None
    /\ routeRequests = {}
    /\ routeSummary = None

C20_Witness ==
  /\ engine = "faulty"
  /\ mounted
  /\ start # None
  /\ end # None
  /\ transportMode = "bike"
\* C21: a 'routesfound' notification that carries one or more routes makes
\* the displayed summary the summary of the first of them, whatever the
\* others are; one that carries no route leaves the summary as it was.
C21_FirstRouteSummary ==
  [][\A c \in routeRequests :
       (mounted' /\ c \notin routeRequests' /\ engineAnswer'.kind = "routesfound")
         => IF engineAnswer'.count > 0
            THEN routeSummary' = Some(PrimarySummary(c.waypoints, c.profile))
            ELSE routeSummary' = routeSummary]_vars

C21_Witness ==
  /\ engineAnswer.kind = "routesfound"
  /\ engineAnswer.count = 2
  /\ routeSummary # None
  /\ \E c \in mapControls : routeSummary = Some(PrimarySummary(c.waypoints, c.profile))

\* The continuation of a pending search runs in this step.
SearchReturns(q) == mounted' /\ CopiesIn(q, searches') < CopiesIn(q, searches)

C28_SearchKeepsRole ==
  /\ [](\A q \in BagToSet(searches) : q.query # << >>)
  /\ [][\A q \in BagToSet(searches) :
          SearchReturns(q) =>
            /\ selectionMode' = selectionMode
            /\ q.type = "start" => end' = end
            /\ q.type = "end" => start' = start
            /\ (q.response.status # "ok" \/ q.response.data = << >>)
                 => start' = start /\ end' = end]_vars

C28_Witness ==
  /\ selectionMode = "start"
  /\ start # None
  /\ searchResults # None
  /\ Len(searchResults[1].results) > 0
  /\ start[1] = BestLoc(searchResults[1].results)
  /\ clicks = EmptyBag
  /\ end = None

LocateReturns(l) == mounted' /\ CopiesIn(l, locates') < CopiesIn(l, locates)

\* C24: a failing geolocate request leaves the viewport and the trip as
\* they are; a successful one flies the viewport to the position found at
\* zoom 13, by exactly one listener.
C24_LocateOncePerSuccess ==
  [][\A l \in BagToSet(locates) :
       LocateReturns(l) =>
         IF l.status = "error"
         THEN viewport' = viewport /\ UNCHANGED << appVars, poiVars, routeVars >>
         ELSE /\ viewport' = [kind |-> "flyTo", center |-> l.latlng, zoom |-> 13]
              /\ locateListeners = 1]_vars

\* C25: when the last of the pending clicks for a slot resolves, the slot
\* holds the point of the click made last for it, in whatever order the
\* geocoder answered.
C25_LaterClickWins ==
  [][\A c \in BagToSet(clicks) :
       (Resolves(c) /\ latestClick'[c.selectionMode] = None) =>
         IF c.selectionMode = "start"
         THEN start' # None /\ latLng(start'[1]) = latestClick.start[1]
         ELSE end' # None /\ latLng(end'[1]) = latestClick.end[1]]_vars

\* C26: while the page is open, the POI loading flag is true exactly when
\* a POI fetch is in flight: with overlapping fetches it stays true until
\* the last of them has resolved.
C26_LoadingIffFetching ==
  mounted => (isLoadingPois <=> poiFetches # EmptyBag)

\* C27: no step of a session makes a waypoint that is set unset: start,
\* once set (by the link the page was opened from, a click or a search),
\* stays set to the same or another location, and so does end.
C27_WaypointsStaySet ==
  [][/\ start # None => start' # None
     /\ end # None => end' # None]_vars

C27_Witness ==
  /\ start # None
  /\ end # None
  /\ searchResults # None
  /\ searchResults[1].results = << >>
  /\ generation.phase = "failed"
  /\ transportMode = "bike"
  /\ clicks = EmptyBag

\* A run of the story handler starts in this step.
GenerationStarts ==
  \/ genRequests' # genRequests
  \/ ~apiKey /\ generation' # generation

\* C29: the generation flag is true exactly while the one run of the story
\* handler is in progress; a run starts only with start and end set and
\* the flag false, a run that requests a story starts from the empty
\* story, and the story displayed during and after a stream is the text of
\* the fragments of that run alone.
C29_OneGeneration ==
  /\ [](isGenerating <=> generation.phase \in {"requested", "streaming"})
  /\ [](generation.phase \in {"streaming", "done"} => story = TextOf(generation.received))
  /\ [][GenerationStarts =>
          /\ start # None
          /\ end # None
          /\ ~isGenerating
          /\ generation.phase \notin {"requested", "streaming"}
          /\ generation'.received = << >>
          /\ genRequests' # genRequests => isGenerating' /\ story' = << >>]_vars

C29_Witness ==
  /\ genRequests = 2
  /\ generation.phase = "streaming"
  /\ isGenerating
  /\ generation.received = << << "b" >> >>
  /\ story = << "b" >>

\* C30: the generation flag is true from the start of a generation until
\* its stream has ended or failed, and every generation started comes to
\* the flag being false again.
C30_GenerationEnds ==
  /\ [](generation.phase \in {"requested", "streaming"} => isGenerating)
  /\ [](generation.phase \in {"done", "failed", "idle"} => ~isGenerating)
  /\ (isGenerating ~> ~isGenerating)

C30_Witness ==
  /\ generation.phase = "done"
  /\ generation.received # << >>
  /\ genRequests = 1
  /\ ~isGenerating

\* C31: in every reachable state the focused POI is either unset or one of
\* the POIs of the current list: replacing the list after a change of
\* destination does not leave the focus on a POI that is no longer listed.
\* Membership is taken by id, the key PoiMarkers registers markers under.
C31_FocusIsListed ==
  focusedPoi # None => Registered(focusedPoi[1].id, pois)

====
